---- MODULE Spec2Model ----
(***************************************************************************)
(* One-pulse mode (OPM) driver of stm32g0xx-hal, src/timer/opm.rs.         *)
(*                                                                         *)
(* The model covers one timer instance: the configuration done by opm()    *)
(* (prescaler and reload derivation), the channel bindings returned by     *)
(* bind_pin(), their enable/disable/set_delay operations, generate(), and  *)
(* the counter of the timer peripheral that these registers drive.         *)
(*                                                                         *)
(* Rust's u32/u64 values do not fit TLC's integers, so the arithmetic of   *)
(* the driver is done on little-endian sequences of base-256 digits and    *)
(* only values known to be small are turned back into integers.            *)
(***************************************************************************)
EXTENDS Integers, Sequences, FiniteSets, TLC

----------------------------------------------------------------------------
(* Fixed-width unsigned arithmetic *)

\* the n low base-256 digits of the natural number x, least significant first
RECURSIVE ToBytes(_, _)
ToBytes(x, n) ==
    IF n = 0 THEN <<>> ELSE <<x % 256>> \o ToBytes(x \div 256, n - 1)

\* a as u64 (zero extension of a u32 digit sequence)
AsU64(a) == a \o <<0, 0, 0, 0>>

\* a as u32 (the four low digits)
AsU32(a) == SubSeq(a, 1, 4)

\* bits 0..15 and bits 16..31 of a digit sequence
Lo16(a) == a[1] + 256 * a[2]
Hi16(a) == a[3] + 256 * a[4]

\* the value of a u32 digit sequence below 2^31
ToInt(a) == a[1] + 256 * a[2] + 65536 * a[3] + 16777216 * a[4]

IsZero(a) == \A i \in 1..Len(a) : a[i] = 0

\* a[1] * b[k] + a[2] * b[k - 1] + ... + a[i] * b[k - i + 1]
RECURSIVE ColumnSum(_, _, _, _)
ColumnSum(a, b, k, i) ==
    IF i = 0 THEN 0 ELSE a[i] * b[k - i + 1] + ColumnSum(a, b, k, i - 1)

\* the digits k.. of a * b, given the carry into digit k
RECURSIVE MulFrom(_, _, _, _)
MulFrom(a, b, k, carry) ==
    IF k > Len(a) THEN <<>>
    ELSE LET sum == ColumnSum(a, b, k, k) + carry
         IN  <<sum % 256>> \o MulFrom(a, b, k + 1, sum \div 256)

\* a * b modulo 256^Len(a)
BMul(a, b) == MulFrom(a, b, 1, 0)

\* the digits 1..i of a / d, given the remainder left by the digits above i
RECURSIVE DivFrom(_, _, _, _)
DivFrom(a, d, i, rem) ==
    IF i = 0 THEN <<>>
    ELSE LET x == rem * 256 + a[i]
         IN  Append(DivFrom(a, d, i - 1, x % d), x \div d)

\* a / d, truncating, for a divisor d below 2^23
BDiv(a, d) == DivFrom(a, d, Len(a), 0)

\* the digits i.. of a + b, given the carry into digit i
RECURSIVE AddFrom(_, _, _, _)
AddFrom(a, b, i, carry) ==
    IF i > Len(a) THEN <<>>
    ELSE LET sum == a[i] + b[i] + carry
         IN  <<sum % 256>> \o AddFrom(a, b, i + 1, sum \div 256)

\* a + b modulo 256^Len(a)
BAdd(a, b) == AddFrom(a, b, 1, 0)

\* a <= b, for digit sequences of one length
BLe(a, b) ==
    \A i \in 1..Len(a) :
        a[i] > b[i] => \E j \in (i + 1)..Len(a) : a[j] < b[j]

\* the digits i.. of a - 1, given whether digit i is borrowed from
RECURSIVE DecFrom(_, _, _)
DecFrom(a, i, borrow) ==
    IF i > Len(a) THEN <<>>
    ELSE IF ~borrow THEN <<a[i]>> \o DecFrom(a, i + 1, FALSE)
    ELSE IF a[i] = 0 THEN <<255>> \o DecFrom(a, i + 1, TRUE)
    ELSE <<a[i] - 1>> \o DecFrom(a, i + 1, FALSE)

\* a - 1 modulo 256^Len(a)
BDec(a) == DecFrom(a, 1, TRUE)

----------------------------------------------------------------------------
(* Inputs *)

\* one instance whose reload is the single field arr, one with arr_l, arr_h
Instances == {"TIM1", "TIM3"}

\* (apb_tim_clk in Hz, period in microseconds, instance) handed to opm()
Settings ==
    { <<48000000, 1000, "TIM1">>,        \* one millisecond at 48 MHz
      <<48000000, 2000000, "TIM1">>,     \* two seconds at 48 MHz
      <<48000000, 2000000, "TIM3">>,
      <<1000000, 200, "TIM3">>,          \* 1 MHz timer clock
      <<1000000, 131071, "TIM1">>,       \* one cycle short of 2 * 65536
      <<64000000, 67108865, "TIM1">>,    \* more than 2^32 timer clock cycles
      <<100000, 5, "TIM1">> }            \* less than one timer clock cycle

Channels == {1, 2}

\* the clocks and periods opm() is configured with when only the
\* configuration is looked at
Clocks == {100000, 1000000, 12345678, 16000000, 48000000, 64000000}
Periods == {1, 5, 200, 1000, 33333, 131071, 1000000, 2000000, 67108865}

\* pins implementing TimerPin<TIM>, and the Channel each of them names
Pins == {"ch1_a", "ch1_b", "ch2_a"}
PinChannel(p) == IF p = "ch2_a" THEN 2 ELSE 1

\* delays (microseconds) handed to set_delay()
Delays == {0, 1, 100}

\* overflows of the counter followed after one generate()
MaxOverflows == 2

----------------------------------------------------------------------------
(* time.rs, as far as opm.rs uses it *)

Million == 1000000

\* us microseconds times clk Hz, as u64
us_times_hz(us, clk) == BMul(AsU64(ToBytes(us, 4)), AsU64(ToBytes(clk, 4)))

\* the cycles of a clock of clk Hz in us microseconds, truncated, as u64
raw_cycles(us, clk) == BDiv(us_times_hz(us, clk), Million)

\* MicroSecond::cycles(clk): the duration in cycles of clk, truncated, as u32;
\* computed on integers when the product is below 2^31
cycles(us, clk) ==
    IF clk = 0 \/ us <= 2147483647 \div clk
    THEN ToBytes((us * clk) \div Million, 4)
    ELSE AsU32(raw_cycles(us, clk))

\* apb_tim_clk / period.into(): the raw clock cycles of one period, as u32
HertzDivPeriod(clk, us) == AsU32(raw_cycles(us, clk))

----------------------------------------------------------------------------
(* State *)

VARIABLES
    apb_tim_clk,   \* rcc.clocks.apb_tim_clk
    period,        \* the period handed to opm()
    tim,           \* the timer instance
    phase,         \* "unconfigured", "configured" or "panicked"
    apbenr,        \* the instance's clock gate bit in RCC
    tim_psc,       \* PSC register
    tim_arr_l,     \* ARR register, bits 0..15
    tim_arr_h,     \* ARR register, bits 16..31
    tim_cr1,       \* CR1 register: [cen, opm]
    tim_cnt,       \* the counter
    tim_ccer,      \* CCER register: ccxe bit of every channel
    tim_ccr,       \* CCRx register of every channel
    tim_ocm,       \* ocxm field of every channel (CCMRx)
    tim_ocfe,      \* ocxfe bit of every channel (CCMRx)
    opm_clk,       \* Opm.clk
    pin,           \* the OpmPin made from every pin: [bound, clk, delay]
    overflows,     \* counter overflows since the last generate()
    cnt_at_generate, \* the count the last generate() found in the counter
    writes,        \* the register writes opm() has issued, in program order
    armed          \* the OpmPins enabled and not disabled since

vars == <<apb_tim_clk, period, tim, phase, apbenr, tim_psc, tim_arr_l,
          tim_arr_h, tim_cr1, tim_cnt, tim_ccer, tim_ccr, tim_ocm, tim_ocfe,
          opm_clk, pin, overflows, cnt_at_generate, writes,
          armed>>

\* what is recorded about the last generate()
generated == <<overflows, cnt_at_generate>>

inputs == <<apb_tim_clk, period, tim>>
timer_regs == <<tim_psc, tim_arr_l, tim_arr_h>>
channel_regs == <<tim_ccer, tim_ccr, tim_ocm, tim_ocfe>>

U16 == 65536
MaxReload == 65535

\* the instances the opm! macro is given arr_l, arr_h for
HasArrH(t) == t = "TIM3"

ArrValue == tim_arr_h * U16 + tim_arr_l

\* the timer before opm(): its registers at their reset values, no OpmPin
Unconfigured ==
    /\ phase = "unconfigured"
    /\ apbenr = FALSE
    /\ tim_psc = 0
    /\ tim_arr_l = MaxReload
    /\ tim_arr_h = 0
    /\ tim_cr1 = [cen |-> FALSE, opm |-> FALSE]
    /\ tim_cnt = 0
    /\ tim_ccer = [c \in Channels |-> FALSE]
    /\ tim_ccr = [c \in Channels |-> 0]
    /\ tim_ocm = [c \in Channels |-> 0]
    /\ tim_ocfe = [c \in Channels |-> FALSE]
    /\ opm_clk = 0
    /\ pin = [p \in Pins |-> [bound |-> FALSE, clk |-> 0, delay |-> 0]]
    /\ overflows = 0
    /\ cnt_at_generate = 0
    /\ writes = <<>>
    /\ armed = {}

Init ==
    /\ \E s \in Settings : apb_tim_clk = s[1] /\ period = s[2] /\ tim = s[3]
    /\ Unconfigured

ConfigInit ==
    /\ apb_tim_clk \in Clocks
    /\ period \in Periods
    /\ tim \in Instances
    /\ Unconfigured

----------------------------------------------------------------------------
(* opm(): the timer configuration *)

\* psc_of with the divisor mistyped as 0xfffff
psc_of_wrong_divisor(cycles_per_period) ==
    ToInt(BDiv(BDec(cycles_per_period), 1048575))

\* let psc = (cycles_per_period - 1) / 0xffff, the subtraction wrapping
psc_of(cycles_per_period) == ToInt(BDiv(BDec(cycles_per_period), MaxReload))

\* let freq = (rcc.clocks.apb_tim_clk.0 / (psc + 1)).hz()
freq_of(clk, psc) == clk \div (psc + 1)

\* the bits the psc field takes: psc as u16
psc_bits(psc) == psc % U16

\* the bits the reload field(s) take: reload as u16, (reload >> 16) as u16
arr_bits(reload, t) ==
    [l |-> Lo16(reload), h |-> IF HasArrH(t) THEN Hi16(reload) ELSE 0]

\* the clock gate is opened and the reset pulse puts the registers of the
\* timer at their reset values
rcc_enable_reset ==
    /\ apbenr' = TRUE
    /\ tim_cr1' = [cen |-> FALSE, opm |-> FALSE]
    /\ tim_cnt' = 0
    /\ tim_ccer' = [c \in Channels |-> FALSE]
    /\ tim_ccr' = [c \in Channels |-> 0]
    /\ tim_ocm' = [c \in Channels |-> 0]
    /\ tim_ocfe' = [c \in Channels |-> FALSE]

\* the clock gate and reset line of the timer in RCC, and its PSC and ARR
timer_state ==
    [en |-> apbenr, rst |-> FALSE, psc |-> tim_psc, arr_l |-> tim_arr_l,
     arr_h |-> tim_arr_h]

\* timer_state after the register write w: the reset line puts the registers
\* at their reset values and holds them there, a register of a timer whose
\* clock gate is closed takes no write, and write() of ARR puts the fields
\* it does not name at their reset values
after_write(regs, w) ==
    IF w.reg = "apbenr" THEN [regs EXCEPT !.en = (w.val = 1)]
    ELSE IF w.reg = "apbrstr" THEN
        IF w.val = 1
        THEN [regs EXCEPT !.rst = TRUE, !.psc = 0, !.arr_l = MaxReload,
                          !.arr_h = 0]
        ELSE [regs EXCEPT !.rst = FALSE]
    ELSE IF ~regs.en \/ regs.rst THEN regs
    ELSE IF w.reg = "psc" THEN [regs EXCEPT !.psc = w.val]
    ELSE IF w.reg = "arr" THEN [regs EXCEPT !.arr_l = w.val, !.arr_h = 0]
    ELSE [regs EXCEPT !.arr_h = w.val]

RECURSIVE after_writes(_, _)
after_writes(regs, ws) ==
    IF ws = <<>> THEN regs
    ELSE after_writes(after_write(regs, Head(ws)), Tail(ws))

\* rcc.rb.$apbXenr.modify(.. set_bit()), then $apbXrstr set_bit(), clear_bit()
rcc_writes ==
    << [reg |-> "apbenr", val |-> 1],
       [reg |-> "apbrstr", val |-> 1],
       [reg |-> "apbrstr", val |-> 0] >>

\* opm_writes with the reset pulse issued after the prescaler write
opm_writes_reset_late(psc, reload, t) ==
    << [reg |-> "apbenr", val |-> 1],
       [reg |-> "psc", val |-> psc_bits(psc)],
       [reg |-> "apbrstr", val |-> 1],
       [reg |-> "apbrstr", val |-> 0],
       [reg |-> "arr", val |-> arr_bits(reload, t).l] >>
    \o (IF HasArrH(t) THEN << [reg |-> "arr_h", val |-> arr_bits(reload, t).h] >>
        ELSE << >>)

\* the register writes of $timX, in program order
opm_writes(psc, reload, t) ==
    rcc_writes
    \o << [reg |-> "psc", val |-> psc_bits(psc)],
          [reg |-> "arr", val |-> arr_bits(reload, t).l] >>
    \o (IF HasArrH(t) THEN << [reg |-> "arr_h", val |-> arr_bits(reload, t).h] >>
        ELSE << >>)

opm ==
    /\ phase = "unconfigured"
    /\ rcc_enable_reset
    /\ LET cycles_per_period == HertzDivPeriod(apb_tim_clk, period)
           psc == psc_of(cycles_per_period)
           freq == freq_of(apb_tim_clk, psc)
           reload == cycles(period, freq)
           issued == opm_writes(psc, reload, tim)
           after == after_writes(timer_state, issued)
       IN  /\ writes' = issued
           /\ tim_psc' = after.psc
           /\ tim_arr_l' = after.arr_l
           /\ tim_arr_h' = after.arr_h
           /\ opm_clk' = freq
    /\ phase' = "configured"
    /\ UNCHANGED <<inputs, pin, generated, armed>>

\* cycles_per_period - 1 with cycles_per_period = 0 in a build with overflow
\* checks: opm() panics after the reset pulse
opm_panic ==
    /\ phase = "unconfigured"
    /\ IsZero(HertzDivPeriod(apb_tim_clk, period))
    /\ rcc_enable_reset
    /\ phase' = "panicked"
    /\ writes' = rcc_writes
    /\ UNCHANGED <<inputs, timer_regs, opm_clk, pin, generated, armed>>

----------------------------------------------------------------------------
(* Opm::bind_pin and the OpmPin operations *)

\* bind_pin() handing out the peripheral clock instead of Opm.clk
bind_pin_raw_clock(p) ==
    /\ phase = "configured"
    /\ ~pin[p].bound
    /\ pin' = [pin EXCEPT ![p] = [bound |-> TRUE, clk |-> apb_tim_clk, delay |-> 0]]
    /\ UNCHANGED <<inputs, phase, apbenr, writes, armed,
                   timer_regs, tim_cr1, tim_cnt,
                   channel_regs, opm_clk, generated>>

bind_pin(p) ==
    /\ phase = "configured"
    /\ ~pin[p].bound
    /\ pin' = [pin EXCEPT ![p] = [bound |-> TRUE, clk |-> opm_clk, delay |-> 0]]
    /\ UNCHANGED <<inputs, phase, apbenr, writes, armed,
                   timer_regs, tim_cr1, tim_cnt,
                   channel_regs, opm_clk, generated>>

\* let compare = if self.delay.0 > 0 { self.delay.cycles(self.clk) } else { 1 }
compare_of(delay, clk) == IF delay > 0 THEN ToInt(cycles(delay, clk)) ELSE 1

\* the channel registers of the timer: CCER, CCRx and the ocxm and ocxfe
\* fields of CCMRx
channel_state ==
    [ccer |-> tim_ccer, ccr |-> tim_ccr, ocm |-> tim_ocm, ocfe |-> tim_ocfe]

\* after_setup with write() of CCMRx in place of modify(): the fields of the
\* channel sharing the register go back to their reset values
after_setup_ccmr_write(regs, c, delay, clk) ==
    [ccer |-> regs.ccer,
     ccr  |-> [regs.ccr EXCEPT ![c] = compare_of(delay, clk)],
     ocm  |-> [x \in Channels |-> IF x = c THEN 7 ELSE 0],
     ocfe |-> [x \in Channels |-> x = c]]

\* the channel registers regs as OpmPin::setup leaves them, for the OpmPin
\* of channel c holding delay and clk: tim.$ccrx.write(|w| w.bits(compare)),
\* then tim.$ccmrx_output().modify(|_, w| w.$ocxm().bits(7).$ocxfe().set_bit())
after_setup(regs, c, delay, clk) ==
    [ccer |-> regs.ccer,
     ccr  |-> [regs.ccr EXCEPT ![c] = compare_of(delay, clk)],
     ocm  |-> [regs.ocm EXCEPT ![c] = 7],
     ocfe |-> [regs.ocfe EXCEPT ![c] = TRUE]]

\* the registers take the values regs
write_channel_state(regs) ==
    /\ tim_ccer' = regs.ccer
    /\ tim_ccr' = regs.ccr
    /\ tim_ocm' = regs.ocm
    /\ tim_ocfe' = regs.ocfe

\* ccxe_set inverting the bit instead of setting it
ccxe_toggle(ccer, c) == [ccer EXCEPT ![c] = ~ccer[c]]

\* tim.ccer.modify(|_, w| w.$ccxe().set_bit())
ccxe_set(ccer, c) == [ccer EXCEPT ![c] = TRUE]

\* ccxe_clear with write() in place of modify(): every other bit is reset
ccxe_clear_by_write(ccer, c) == [x \in Channels |-> FALSE]

\* tim.ccer.modify(|_, w| w.$ccxe().clear_bit())
ccxe_clear(ccer, c) == [ccer EXCEPT ![c] = FALSE]

\* the channel registers regs as enable() leaves them, for the OpmPin of
\* channel c holding delay and clk
after_enable(regs, c, delay, clk) ==
    after_setup([regs EXCEPT !.ccer = ccxe_set(regs.ccer, c)], c, delay, clk)

enable(p) ==
    /\ pin[p].bound
    /\ armed' = armed \cup {p}
    /\ UNCHANGED <<inputs, phase, apbenr, writes, timer_regs, tim_cr1, tim_cnt,
                   opm_clk, pin, generated>>
    /\ write_channel_state(
         after_enable(channel_state, PinChannel(p), pin[p].delay, pin[p].clk))

\* disable() that also puts the stored delay back to zero
disable_forgets_delay(p) ==
    /\ pin[p].bound
    /\ tim_ccer' = ccxe_clear(tim_ccer, PinChannel(p))
    /\ pin' = [pin EXCEPT ![p].delay = 0]
    /\ armed' = armed \ {p}
    /\ UNCHANGED <<inputs, phase, apbenr, writes, timer_regs, tim_cr1, tim_cnt,
                   tim_ccr, tim_ocm, tim_ocfe, opm_clk, generated>>

disable(p) ==
    /\ pin[p].bound
    /\ tim_ccer' = ccxe_clear(tim_ccer, PinChannel(p))
    /\ armed' = armed \ {p}
    /\ UNCHANGED <<inputs, phase, apbenr, writes, timer_regs, tim_cr1, tim_cnt,
                   tim_ccr, tim_ocm, tim_ocfe, opm_clk, pin, generated>>

\* set_delay() that leaves the registers of a disabled channel alone
set_delay_skips_disabled(p, delay) ==
    /\ pin[p].bound
    /\ pin' = [pin EXCEPT ![p].delay = delay]
    /\ UNCHANGED <<inputs, phase, apbenr, writes, armed,
                   timer_regs, tim_cr1, tim_cnt,
                   opm_clk, generated>>
    /\ write_channel_state(
         IF tim_ccer[PinChannel(p)]
         THEN after_setup(channel_state, PinChannel(p), delay, pin[p].clk)
         ELSE channel_state)

set_delay(p, delay) ==
    /\ pin[p].bound
    /\ pin' = [pin EXCEPT ![p].delay = delay]
    /\ UNCHANGED <<inputs, phase, apbenr, writes, armed,
                   timer_regs, tim_cr1, tim_cnt,
                   opm_clk, generated>>
    /\ write_channel_state(
         after_setup(channel_state, PinChannel(p), delay, pin[p].clk))

----------------------------------------------------------------------------
(* Opm::generate and the counter *)

\* cr1_generate without the one-pulse-mode bit
cr1_generate_cen_only == [cen |-> TRUE, opm |-> FALSE]

\* tim.cr1.write(|w| w.opm().set_bit().cen().set_bit())
cr1_generate == [cen |-> TRUE, opm |-> TRUE]

\* generate() that also clears the output-enable bits
generate_disarms_channels ==
    /\ phase = "configured"
    /\ tim_cr1' = cr1_generate
    /\ overflows' = 0
    /\ cnt_at_generate' = tim_cnt
    /\ tim_ccer' = [c \in Channels |-> FALSE]
    /\ UNCHANGED <<inputs, phase, apbenr, writes, armed,
                   timer_regs, tim_cnt, tim_ccr,
                   tim_ocm, tim_ocfe, opm_clk, pin>>

generate ==
    /\ phase = "configured"
    /\ tim_cr1' = cr1_generate
    /\ overflows' = 0
    /\ cnt_at_generate' = tim_cnt
    /\ UNCHANGED <<inputs, phase, apbenr, writes, armed,
                   timer_regs, tim_cnt, channel_regs,
                   opm_clk, pin>>

\* the compare values the running counter has still to pass before the reload
CompareAhead ==
    {tim_ccr[c] : c \in Channels} \cap ((tim_cnt + 1)..ArrValue)

Min(S) == CHOOSE x \in S : \A y \in S : x <= y

\* the enabled counter counts up to the next compare value
count_up ==
    /\ tim_cr1.cen
    /\ CompareAhead # {}
    /\ tim_cnt' = Min(CompareAhead)
    /\ UNCHANGED <<inputs, phase, apbenr, writes, armed,
                   timer_regs, tim_cr1, channel_regs,
                   opm_clk, pin, generated>>

\* the enabled counter passes the reload value: it restarts from zero, and in
\* one-pulse mode the hardware clears the enable bit
overflow ==
    /\ tim_cr1.cen
    /\ CompareAhead = {}
    /\ overflows < MaxOverflows
    /\ tim_cnt' = 0
    /\ tim_cr1' = [tim_cr1 EXCEPT !.cen = ~tim_cr1.opm]
    /\ overflows' = overflows + 1
    /\ UNCHANGED <<inputs, phase, apbenr, writes, armed,
                   timer_regs, channel_regs, opm_clk,
                   pin, cnt_at_generate>>

\* the output of channel c: with output mode 7 the channel is inactive while
\* the counter is below the compare value and active from there on; a
\* channel whose output-enable bit is clear drives nothing
oc_out(c) == tim_ccer[c] /\ tim_ocm[c] = 7 /\ tim_cnt >= tim_ccr[c]

----------------------------------------------------------------------------

Next ==
    \/ opm
    \/ opm_panic
    \/ \E p \in Pins : bind_pin(p)
    \/ \E p \in Pins : enable(p)
    \/ \E p \in Pins : disable(p)
    \/ \E p \in Pins, d \in Delays : set_delay(p, d)
    \/ generate
    \/ count_up
    \/ overflow

Spec == Init /\ [][Next]_vars

\* opm() alone, over every clock, period and instance
ConfigNext ==
    \/ opm
    \/ opm_panic

ConfigSpec == ConfigInit /\ [][ConfigNext]_vars

----------------------------------------------------------------------------
(* Properties of the timer configuration *)

\* the raw clock cycles of the period, untruncated
period_cycles == raw_cycles(period, apb_tim_clk)

\* a u64 digit sequence below 2^16, below 2^32
FitsU16(a) == \A i \in 3..8 : a[i] = 0
FitsU32(a) == \A i \in 5..8 : a[i] = 0

\* the period is at least one clock cycle long and the prescaler computed
\* for it fits the 16-bit prescaler field
Representable ==
    /\ ~IsZero(period_cycles)
    /\ FitsU32(period_cycles)
    /\ psc_of(AsU32(period_cycles)) <= MaxReload

\* the reload computed at prescaler p fits the counter of instance t
ReloadFits(p, t) ==
    LET reload == raw_cycles(period, freq_of(apb_tim_clk, p))
    IN  IF HasArrH(t) THEN FitsU32(reload) ELSE FitsU16(reload)

\* C1: every compare value that setup has written to a channel is >= 1; a
\* delay whose cycle count truncates to 0 programs compare = 1, never 0
C1_CompareAtLeastOne ==
    Representable => \A c \in Channels : tim_ocm[c] = 7 => tim_ccr[c] >= 1

\* C2: the prescaler opm() programs is the least p whose reload, computed at
\* apb_tim_clk / (p + 1), fits the counter of the instance
C2_PrescalerIsMinimal ==
    (phase = "configured" /\ Representable) =>
        /\ ReloadFits(tim_psc, tim)
        /\ \A p \in 0..(tim_psc - 1) : ~ReloadFits(p, tim)

\* C3: for a representable period, (reload + 1) ticks of the handle's
\* frequency, reload as written to the reload register, differ from the
\* desired period by at most one tick.  In units of 1/(1000000 * opm_clk) s:
\* |(reload + 1) * 1000000 - period * opm_clk| <= 1000000
C3_PeriodWithinOneTick ==
    (phase = "configured" /\ Representable) =>
        LET tick == AsU64(ToBytes(Million, 4))
            achieved == BMul(AsU64(ToBytes(ArrValue + 1, 4)), tick)
            desired == us_times_hz(period, opm_clk)
        IN  /\ BLe(achieved, BAdd(desired, tick))
            /\ BLe(desired, BAdd(achieved, tick))

\* two seconds at 48 MHz on a 16-bit counter, configured
C3_Witness ==
    /\ phase = "configured"
    /\ apb_tim_clk = 48000000 /\ period = 2000000 /\ tim = "TIM1"
    /\ tim_psc = 1464 /\ opm_clk = 32764 /\ ArrValue = 65528

\* C4: when the cycle count of the period fits the counter without
\* prescaling, opm() programs prescaler 0, the handle's frequency is the
\* peripheral clock and the reload register holds (cycles of the period) - 1
C4_ReloadIsCyclesMinusOne ==
    (phase = "configured" /\ ~IsZero(period_cycles) /\ FitsU16(period_cycles)) =>
        /\ tim_psc = 0
        /\ opm_clk = apb_tim_clk
        /\ ArrValue = Lo16(period_cycles) - 1

\* the period is longer than 65536 * 65536 cycles of the peripheral clock
PeriodTooLong == ~BLe(period_cycles, <<0, 0, 0, 0, 1, 0, 0, 0>>)

\* C5: a period longer than the longest representable one programs the
\* longest representable one: prescaler and reload both at their maximum
C5_LongPeriodSaturates ==
    (phase = "configured" /\ PeriodTooLong) =>
        /\ tim_psc = MaxReload
        /\ tim_arr_l = MaxReload

\* the positions in writes of the writes to register r
WritesOf(r) == {i \in 1..Len(writes) : writes[i].reg = r}

\* C12: opm() opens the clock gate, asserts and deasserts the reset line, and
\* only then writes the prescaler and after it the reload register; clock
\* enable and reset pulse happen once each, and the prescaler and reload
\* written are in the registers when opm() returns
C12_ConfigureWriteOrder ==
    phase = "configured" =>
        /\ apbenr
        /\ Cardinality(WritesOf("apbenr")) = 1
        /\ Cardinality(WritesOf("apbrstr")) = 2
        /\ \E e, a, d, p, r \in 1..Len(writes) :
               /\ e < a /\ a < d /\ d < p /\ p < r
               /\ writes[e] = [reg |-> "apbenr", val |-> 1]
               /\ writes[a] = [reg |-> "apbrstr", val |-> 1]
               /\ writes[d] = [reg |-> "apbrstr", val |-> 0]
               /\ writes[p].reg = "psc" /\ tim_psc = writes[p].val
               /\ writes[r].reg = "arr" /\ tim_arr_l = writes[r].val
               /\ \A h \in WritesOf("arr_h") : r < h /\ tim_arr_h = writes[h].val
               /\ HasArrH(tim) => WritesOf("arr_h") # {}

\* two seconds at 48 MHz configured on the instance with a split reload
C12_Witness ==
    /\ phase = "configured"
    /\ tim = "TIM3" /\ Len(writes) = 6
    /\ tim_psc = 1464 /\ tim_arr_l = 65528 /\ tim_arr_h = 0

----------------------------------------------------------------------------
(* Properties of the channel operations and of generate() *)

\* C6: enable() is idempotent: in the state an enable() call leaves, one
\* more enable() of the same OpmPin would leave every channel register as
\* it is, so N calls in a row leave what one call leaves
C6_EnableIdempotent ==
    [][\A p \in Pins :
        enable(p) =>
            after_enable(channel_state', PinChannel(p), pin'[p].delay,
                         pin'[p].clk) = channel_state'
      ]_vars

\* an OpmPin holding a delay of 100 us, enabled with that delay programmed
C6_Witness ==
    \E p \in Pins :
        /\ pin[p].bound /\ pin[p].delay = 100
        /\ tim_ccer[PinChannel(p)]
        /\ tim_ocm[PinChannel(p)] = 7 /\ tim_ocfe[PinChannel(p)]
        /\ tim_ccr[PinChannel(p)] = compare_of(100, pin[p].clk)
        /\ tim_ccr[PinChannel(p)] > 1

\* C7: disable() followed by enable() restores the compare value of the
\* delay configured before: in the state disable() leaves, enable() of the
\* same OpmPin programs the compare value of the delay stored before the
\* disable() and sets the output-enable bit; and every enable() of a
\* disabled channel programs the compare value of the stored delay
C7_DisableEnableRestores ==
    [][\A p \in Pins :
        LET c == PinChannel(p)
            was == compare_of(pin[p].delay, pin[p].clk)
            again == after_enable(channel_state', c, pin'[p].delay,
                                  pin'[p].clk)
        IN  /\ disable(p) =>
                   /\ again.ccr[c] = was
                   /\ again.ccer[c]
            /\ (~tim_ccer[c] /\ enable(p)) =>
                   /\ tim_ccr'[c] = was
                   /\ tim_ccer'[c]
      ]_vars

\* a channel disabled while its OpmPin holds a delay of 100 us
C7_Witness ==
    \E p \in Pins :
        /\ pin[p].bound /\ pin[p].delay = 100
        /\ ~tim_ccer[PinChannel(p)]
        /\ tim_ocm[PinChannel(p)] = 7
        /\ tim_ccr[PinChannel(p)] = compare_of(100, pin[p].clk)

\* C8: disable() clears the output-enable bit of its channel and changes
\* nothing else: not the stored delay, the compare registers, the output
\* mode bits, nor the enable bit of another channel
C8_DisableOnlyClearsEnable ==
    [][\A p \in Pins :
        disable(p) =>
            /\ ~tim_ccer'[PinChannel(p)]
            /\ \A c \in Channels \ {PinChannel(p)} : tim_ccer'[c] = tim_ccer[c]
            /\ pin' = pin
            /\ tim_ccr' = tim_ccr /\ tim_ocm' = tim_ocm /\ tim_ocfe' = tim_ocfe
            /\ UNCHANGED <<timer_regs, tim_cr1, tim_cnt, opm_clk>>
      ]_vars

\* channel 1 disabled with its configuration kept, channel 2 still enabled
C8_Witness ==
    /\ ~tim_ccer[1] /\ tim_ocm[1] = 7 /\ tim_ccr[1] > 1
    /\ tim_ccer[2]
    /\ \E p \in Pins : PinChannel(p) = 1 /\ pin[p].bound /\ pin[p].delay > 0

\* C9: set_delay() called while a pulse cycle is in flight leaves the
\* compare values of that cycle as they are
C9_SetDelayKeepsRunningCompare ==
    [][\A p \in Pins, d \in Delays :
        (tim_cr1.cen /\ set_delay(p, d)) => tim_ccr' = tim_ccr]_vars

\* C10 as stated: after every generate(), also one issued while the
\* counter runs, the counter starts from zero, and it stops with its enable
\* bit cleared at its first overflow
C10_GenerateRestartsCounter ==
    [][/\ generate => (cnt_at_generate' = 0 /\ tim_cnt' = 0 /\ tim_cr1'.cen)
       /\ overflow => (~tim_cr1'.cen /\ overflows' = 1)]_vars

\* C10 amended: generate() issued while the counter is stopped starts it from
\* zero; generate() issued while it runs leaves the count where it is; the
\* running counter needs no software to go on, only counts upwards within
\* the reload value, and at its first overflow goes back to zero with the
\* enable bit cleared
C10_OnePulsePerGenerate ==
    [][/\ (generate /\ ~tim_cr1.cen) =>
              /\ cnt_at_generate' = 0 /\ tim_cnt' = 0
              /\ tim_cr1'.cen /\ overflows' = 0
       /\ (generate /\ tim_cr1.cen) =>
              /\ cnt_at_generate' = tim_cnt /\ tim_cnt' = tim_cnt
              /\ tim_cr1'.cen /\ overflows' = 0
       /\ tim_cr1.cen => ENABLED (count_up \/ overflow)
       /\ count_up => (tim_cnt < tim_cnt' /\ tim_cnt' <= ArrValue /\ tim_cr1'.cen)
       /\ overflow => (tim_cnt' = 0 /\ ~tim_cr1'.cen /\ overflows' = 1)
      ]_vars

\* a pulse cycle that generate() started has ended by itself
C10_Witness ==
    /\ phase = "configured"
    /\ tim_cr1.opm /\ ~tim_cr1.cen
    /\ overflows = 1 /\ tim_cnt = 0 /\ cnt_at_generate = 0

\* C11: in a pulse cycle that generate() starts on an enabled channel, the
\* output is inactive when the counter starts, and it is active when the
\* counter overflows and stops: every cycle has an active phase, whatever
\* delay set_delay() stored
C11_InactiveThenActive ==
    [][Representable =>
          \A c \in Channels :
              /\ (generate /\ ~tim_cr1.cen /\ tim_ccer[c]) => ~oc_out(c)'
              /\ (overflow /\ tim_ccer[c]) => oc_out(c)
      ]_vars

\* C13: set_delay(d) stores d and at once programs the channel, enabled or
\* not, from d alone: compare = d.cycles(effective frequency) for d > 0
\* (100 for 100 us at 1 MHz) and 1 for d = 0, output mode 7, fast bit set; so
\* after several set_delay() calls the registers are those of the last one
C13_SetDelayReprograms ==
    [][\A p \in Pins, d \in Delays :
        set_delay(p, d) =>
            LET c == PinChannel(p)
            IN  /\ pin'[p].delay = d
                /\ tim_ccr'[c] = (IF d > 0 THEN ToInt(cycles(d, opm_clk)) ELSE 1)
                /\ (d = 100 /\ opm_clk = Million) => tim_ccr'[c] = 100
                /\ tim_ocm'[c] = 7 /\ tim_ocfe'[c]
      ]_vars

\* 100 us stored at 1 MHz in an OpmPin whose channel is not enabled
C13_Witness ==
    \E p \in Pins :
        /\ opm_clk = Million
        /\ pin[p].bound /\ pin[p].delay = 100
        /\ ~tim_ccer[PinChannel(p)]
        /\ tim_ccr[PinChannel(p)] = 100
        /\ tim_ocm[PinChannel(p)] = 7 /\ tim_ocfe[PinChannel(p)]

C15_NeverContinuous ==
    phase = "configured" => (tim_cr1.cen => tim_cr1.opm)

\* the counter running in one-pulse mode, part of the cycle behind it, with
\* one channel enabled and one configured but not enabled
C15_Witness ==
    /\ phase = "configured"
    /\ tim_cr1.cen /\ tim_cr1.opm /\ tim_cnt > 0
    /\ \E c, d \in Channels : tim_ccer[c] /\ ~tim_ccer[d] /\ tim_ocm[d] = 7

\* C16: for every OpmPin enabled and not disabled since, the compare register
\* of its channel holds the compare value of the delay the OpmPin stores, the
\* output mode is 7 and the fast bit is set; also with several OpmPins made
\* from one Opm
C16_EnabledBindingMatchesDelay ==
    Representable => \A p \in armed :
        /\ tim_ccr[PinChannel(p)] = compare_of(pin[p].delay, pin[p].clk)
        /\ tim_ocm[PinChannel(p)] = 7
        /\ tim_ocfe[PinChannel(p)]

\* C17: bind_pin() returns an OpmPin with delay 0 and the frequency of the
\* Opm, writing no register of the timer; that frequency is apb_tim_clk /
\* (prescaler + 1) with the prescaler opm() programmed, and every OpmPin
\* holds it through every later enable(), disable(), set_delay(), generate()
C17_BindingCarriesEffectiveFrequency ==
    [][/\ \A p \in Pins :
              bind_pin(p) =>
                  /\ pin'[p].bound /\ pin'[p].delay = 0
                  /\ pin'[p].clk = opm_clk
                  /\ UNCHANGED <<apbenr, timer_regs, tim_cr1, tim_cnt,
                                 channel_regs>>
       /\ \A p \in Pins : pin'[p].bound => pin'[p].clk = opm_clk'
       /\ \A p \in Pins :
              pin'[p].bound =>
                  \/ pin'[p].clk = apb_tim_clk \div (tim_psc' + 1)
                  \/ ~Representable
      ]_vars

\* an OpmPin of a prescaled timer, after set_delay(), enable() and generate()
C17_Witness ==
    \E p \in Pins :
        /\ pin[p].bound /\ pin[p].delay = 100 /\ p \in armed
        /\ tim_psc > 0 /\ pin[p].clk = apb_tim_clk \div (tim_psc + 1)
        /\ pin[p].clk < apb_tim_clk
        /\ tim_cr1.cen

\* C18: enable(), disable() and set_delay() of an OpmPin leave the enable
\* bit, compare register, output mode and fast bit of every other channel
\* as they are, the channel sharing its CCMRx register included, and leave
\* PSC, ARR and CR1 as they are; generate() leaves PSC, ARR and every
\* channel register as they are
C18_ChannelOperationsFrame ==
    [][/\ \A p \in Pins :
              (enable(p) \/ disable(p) \/ \E d \in Delays : set_delay(p, d)) =>
                  /\ \A c \in Channels \ {PinChannel(p)} :
                         /\ tim_ccer'[c] = tim_ccer[c]
                         /\ tim_ccr'[c] = tim_ccr[c]
                         /\ tim_ocm'[c] = tim_ocm[c]
                         /\ tim_ocfe'[c] = tim_ocfe[c]
                  /\ UNCHANGED <<timer_regs, tim_cr1>>
       /\ generate => UNCHANGED <<timer_regs, channel_regs>>
      ]_vars

\* both channels enabled with different compare values, after a generate()
C18_Witness ==
    /\ tim_cr1.opm
    /\ tim_ccer[1] /\ tim_ccer[2]
    /\ tim_ocm[1] = 7 /\ tim_ocm[2] = 7 /\ tim_ocfe[1] /\ tim_ocfe[2]
    /\ tim_ccr[1] > 1 /\ tim_ccr[2] = 1

====
